---------------------------- MODULE Spec2Model ----------------------------
(***************************************************************************)
(* A model of the entity-resolution core of consensus-decentralization:    *)
(*   - link resolution (helper.get_pool_links, and the older               *)
(*     lib.get_pool_data loop) over an insertion-ordered dictionary,       *)
(*   - the lru_cache(maxsize=2) in front of get_pool_links,                *)
(*   - block classification (TezosMapping, CardanoMapping.process),        *)
(*   - the concentration metrics (compute_gini, compute_hhi).              *)
(*                                                                         *)
(* A Python dict is modelled as a sequence of <<key, value>> pairs in      *)
(* insertion order: assigning to an existing key keeps the key's place,    *)
(* assigning to a new key appends it.  A float quotient a / b of two       *)
(* integers is modelled exactly, as the pair [num |-> a, den |-> b].       *)
(***************************************************************************)
EXTENDS Integers, Sequences, FiniteSets, TLC

VARIABLES
    \* ---- link resolution, one call of get_pool_links followed step by step
    claims,       \* the claims selected for the timeframe, in file order
    pool_links,   \* the working dict of get_pool_links
    idx,          \* position of the for loop of line 126 in pool_links.items()
    parent,       \* loop variable of line 126
    child,        \* loop variable of lines 126-135
    pc,           \* "start" | "for" | "while" | "done" | "raised" | "off"
    \* ---- the lru_cache in front of get_pool_links
    claimsdb,     \* (project, timeframe) -> the claims selected for it
    cache,        \* cached (key, result) pairs, least recently used first
    call_key,     \* arguments of the last call
    ret,          \* outcome of the last call
    evicted,      \* history: the keys the cache has dropped so far
    \* ---- block classification
    project,      \* "tezos" | "cardano"
    block,        \* the raw block
    known_identifiers, known_addresses, special_addresses,
    link_mapping, \* the resolved pool_links classification uses
    address_match, \* what map_from_known_addresses returned for the block
    entity,       \* the entity name the block was attributed to
    \* ---- concentration metrics
    counts,       \* blocks_per_entity.values(), in dict order
    gini_out, hhi_out,
    \* ---- timeframes and the validity window of one claim
    timeframe,    \* the timeframe argument, a string (sequence of characters)
    tf_parts,     \* history: the year, month, day the string was written from
    pool_info,    \* one claim of the claim files: name, from, to
    tf_start, tf_end,  \* start and end of lines 98-99
    recorded      \* whether lines 115-124 recorded the claim in pool_links

vars == <<claims, pool_links, idx, parent, child, pc,
          claimsdb, cache, call_key, ret, evicted,
          project, block, known_identifiers, known_addresses,
          special_addresses, link_mapping, address_match, entity,
          counts, gini_out, hhi_out,
          timeframe, tf_parts, pool_info, tf_start, tf_end, recorded>>

linkVars   == <<claims, pool_links, idx, parent, child, pc>>
cacheVars  == <<claimsdb, cache, call_key, ret, evicted>>
classVars  == <<project, block, known_identifiers, known_addresses,
                special_addresses, link_mapping, address_match, entity>>
metricVars == <<counts, gini_out, hhi_out>>
dateVars   == <<timeframe, tf_parts, pool_info, tf_start, tf_end, recorded>>

-----------------------------------------------------------------------------
(* Bounds and universes *)

MaxClaims == 3

Names == {"A", "B", "C"}

\* Every sequence over S of length at most n
SeqsUpTo(S, n) == UNION {[1..k -> S] : k \in 0..n}

\* An ownership claim that overlaps the timeframe: <<pool_info['name'], cluster_name>>
ClaimSeqs == SeqsUpTo(Names \X Names, MaxClaims)

-----------------------------------------------------------------------------
(* Python dict, insertion ordered *)

EmptyDict == <<>>

DictKeys(d) == {d[i][1] : i \in DOMAIN d}

DictHas(d, k) == k \in DictKeys(d)

DictGet(d, k) == d[CHOOSE i \in DOMAIN d : d[i][1] = k][2]

DictSet(d, k, v) ==
    IF DictHas(d, k)
    THEN [i \in DOMAIN d |-> IF d[i][1] = k THEN <<k, v>> ELSE d[i]]
    ELSE Append(d, <<k, v>>)

\* As a TLA+ function, forgetting the order
DictFn(d) == [k \in DictKeys(d) |-> DictGet(d, k)]

-----------------------------------------------------------------------------
(* get_pool_links, lines 101-124: the working dict.  The claims are those  *)
(* whose validity window overlaps the timeframe, cluster data first, then  *)
(* legal data; a later claim for the same pool overwrites the earlier one. *)

RECURSIVE RecordClaims(_, _)
RecordClaims(d, cs) ==
    IF cs = <<>> THEN d
    ELSE RecordClaims(DictSet(d, cs[1][1], cs[1][2]), Tail(cs))

WorkingMap(cs) == RecordClaims(EmptyDict, cs)


-----------------------------------------------------------------------------
(* get_pool_links, lines 127-135: one evaluation of the while condition    *)
(* and, if it holds, of the loop body.                                     *)
(*   "exit"     the condition is false, or the break of line 131           *)
(*   "raise"    the AssertionError of line 133                             *)
(*   "continue" child = next_child, line 135                               *)

\* ChainStep with the tests of lines 129 and 132 in the other order
ChainStep_ParentFirst(d, p, c) ==
    IF ~DictHas(d, c)
    THEN [op |-> "exit", child |-> c]
    ELSE LET next_child == DictGet(d, c) IN
         IF next_child = p THEN [op |-> "raise", child |-> c]
         ELSE IF next_child = c THEN [op |-> "exit", child |-> c]
         ELSE [op |-> "continue", child |-> next_child]

ChainStep(d, p, c) ==
    IF ~DictHas(d, c)
    THEN [op |-> "exit", child |-> c]
    ELSE LET next_child == DictGet(d, c) IN
         IF next_child = c THEN [op |-> "exit", child |-> c]
         ELSE IF next_child = p THEN [op |-> "raise", child |-> c]
         ELSE [op |-> "continue", child |-> next_child]

(* The whole while loop of one parent.  The loop reads d and p, which it   *)
(* does not change, and its only state is child: once it continues to a    *)
(* child it has had before, it repeats for ever ("diverge").               *)
RECURSIVE FollowChain(_, _, _, _)
FollowChain(d, p, c, visited) ==
    LET s == ChainStep(d, p, c) IN
    IF s.op = "continue"
    THEN IF s.child \in visited
         THEN [op |-> "diverge", child |-> s.child]
         ELSE FollowChain(d, p, s.child, visited \cup {s.child})
    ELSE s

(* get_pool_links, lines 126-138: the for loop over pool_links.items(),    *)
(* which reads the live dict, and the return.                              *)
RECURSIVE ResolveFrom(_, _)
ResolveFrom(d, i) ==
    IF i > Len(d)
    THEN [op |-> "return", links |-> d]
    ELSE LET r == FollowChain(d, d[i][1], d[i][2], {d[i][2]}) IN
         IF r.op = "exit"
         THEN ResolveFrom(DictSet(d, d[i][1], r.child), i + 1)
         ELSE [op |-> r.op, links |-> EmptyDict]

\* One uncached call of get_pool_links on the claims selected for the timeframe
get_pool_links(cs) == ResolveFrom(WorkingMap(cs), 1)

-----------------------------------------------------------------------------
(* lib.get_pool_data, lines 21-24: the older chain resolution, which has   *)
(* neither the self-mapping break nor the circularity check.               *)

LibChainStep(d, val) ==
    IF DictHas(d, val)
    THEN [op |-> "continue", child |-> DictGet(d, val)]
    ELSE [op |-> "exit", child |-> val]

RECURSIVE LibFollowChain(_, _, _)
LibFollowChain(d, val, visited) ==
    LET s == LibChainStep(d, val) IN
    IF s.op = "continue"
    THEN IF s.child \in visited
         THEN [op |-> "diverge", child |-> s.child]
         ELSE LibFollowChain(d, s.child, visited \cup {s.child})
    ELSE s

RECURSIVE LibResolveFrom(_, _)
LibResolveFrom(d, i) ==
    IF i > Len(d)
    THEN [op |-> "return", links |-> d]
    ELSE LET r == LibFollowChain(d, d[i][2], {d[i][2]}) IN
         IF r.op = "exit"
         THEN LibResolveFrom(DictSet(d, d[i][1], r.child), i + 1)
         ELSE [op |-> r.op, links |-> EmptyDict]

lib_resolve_chain_links(d) == LibResolveFrom(d, 1)

-----------------------------------------------------------------------------
(* Idle values of the parts a specification does not run *)

LinkIdle ==
    /\ claims = <<>> /\ pool_links = EmptyDict /\ idx = 0
    /\ parent = "" /\ child = "" /\ pc = "off"

CacheIdle ==
    /\ claimsdb = <<>> /\ cache = <<>> /\ call_key = <<>>
    /\ ret = [op |-> "none", links |-> EmptyDict, from |-> "none"]
    /\ evicted = {}

ClassIdle ==
    /\ project = "" /\ block = <<>> /\ known_identifiers = <<>>
    /\ known_addresses = <<>> /\ special_addresses = {}
    /\ link_mapping = EmptyDict /\ address_match = "" /\ entity = ""

Unset == [kind |-> "unset", num |-> 0, den |-> 1]

MetricIdle ==
    /\ counts = <<>> /\ gini_out = Unset /\ hhi_out = Unset

NoDate == [ok |-> FALSE, year |-> 0, month |-> 0, day |-> 0]

DateIdle ==
    /\ timeframe = <<>> /\ tf_parts = <<0, 0, 0>>
    /\ pool_info = [name |-> "", from |-> <<>>, to |-> <<>>]
    /\ tf_start = NoDate /\ tf_end = NoDate /\ recorded = "unset"

-----------------------------------------------------------------------------
(* One call of get_pool_links, followed step by step *)

InitLinks ==
    /\ claims \in ClaimSeqs
    /\ pool_links = EmptyDict /\ idx = 0 /\ parent = "" /\ child = ""
    /\ pc = "start"
    /\ CacheIdle /\ ClassIdle /\ MetricIdle /\ DateIdle

\* lines 101-124
LoadClaims ==
    /\ pc = "start"
    /\ pool_links' = WorkingMap(claims)
    /\ idx' = 1
    /\ pc' = "for"
    /\ UNCHANGED <<claims, parent, child, cacheVars, classVars, metricVars, dateVars>>

\* line 126, the next item of pool_links.items()
ForNext ==
    /\ pc = "for"
    /\ idx <= Len(pool_links)
    /\ parent' = pool_links[idx][1]
    /\ child' = pool_links[idx][2]
    /\ pc' = "while"
    /\ UNCHANGED <<claims, pool_links, idx, cacheVars, classVars, metricVars, dateVars>>

\* line 138, after the last item
ReturnLinks ==
    /\ pc = "for"
    /\ idx > Len(pool_links)
    /\ pc' = "done"
    /\ UNCHANGED <<claims, pool_links, idx, parent, child,
                   cacheVars, classVars, metricVars, dateVars>>

\* lines 127-136
WhileStep ==
    /\ pc = "while"
    /\ LET s == ChainStep(pool_links, parent, child) IN
       /\ pc' = CASE s.op = "exit" -> "for"
                  [] s.op = "raise" -> "raised"
                  [] OTHER -> "while"
       /\ child' = s.child
       /\ pool_links' = IF s.op = "exit"
                        THEN DictSet(pool_links, parent, s.child)
                        ELSE pool_links
       /\ idx' = IF s.op = "exit" THEN idx + 1 ELSE idx
    /\ UNCHANGED <<claims, parent, cacheVars, classVars, metricVars, dateVars>>

NextLinks == LoadClaims \/ ForNext \/ ReturnLinks \/ WhileStep

SpecLinks == InitLinks /\ [][NextLinks]_vars

\* The interpreter keeps executing the loop: every enabled step is taken
FairLinks == SpecLinks /\ WF_vars(NextLinks)

\* The step-by-step run and get_pool_links taken as one function agree
StepsAgree ==
    LET r == get_pool_links(claims) IN
    /\ pc = "done" => r.op = "return" /\ r.links = pool_links
    /\ pc = "raised" => r.op = "raise"
    /\ r.op = "diverge" => pc \notin {"done", "raised"}

-----------------------------------------------------------------------------
(* What the claims about link resolution speak of *)

\* The name reached from x after n hops of the ownership map d
RECURSIVE Hop(_, _, _)
Hop(d, x, n) ==
    IF n = 0 \/ ~DictHas(d, x) THEN x ELSE Hop(d, DictGet(d, x), n - 1)

\* d holds a cycle of two or more distinct names
HasCycle(d) ==
    \E k \in DictKeys(d) :
        /\ DictGet(d, k) # k
        /\ \E n \in 2..Len(d) : Hop(d, k, n) = k

\* The end of x's chain in d: the first name that is not a claimant or that
\* maps to itself (n bounds the walk; an acyclic chain has at most Len(d) hops)
RECURSIVE ChainEnd(_, _, _)
ChainEnd(d, x, n) ==
    IF n = 0 \/ ~DictHas(d, x) \/ DictGet(d, x) = x
    THEN x
    ELSE ChainEnd(d, DictGet(d, x), n - 1)

\* Every value of d is not a key, or a key mapped to itself
DepthOne(d) ==
    \A i \in DOMAIN d : ~DictHas(d, d[i][2]) \/ DictGet(d, d[i][2]) = d[i][2]

\* The returned dict maps every claimant of d0 to the end of its chain in d0
Collapsed(d0, d) ==
    /\ DictKeys(d) = DictKeys(d0)
    /\ \A k \in DictKeys(d0) : DictGet(d, k) = ChainEnd(d0, k, Len(d0))
    /\ DepthOne(d)

(* C1: whenever the claims selected for the timeframe hold a cycle of two  *)
(* or more distinct names, the call of get_pool_links ends with the        *)
(* circular-dependency error, whatever the order of the dict and whatever  *)
(* other claimants lead into the cycle.                                    *)
C1_CycleAlwaysRaises ==
    HasCycle(WorkingMap(claims)) ~> (pc = "raised")

(* C2: when the claims hold no cycle of two or more distinct names, the    *)
(* call never raises, it returns, and the dict it returns maps every       *)
(* claimant to the end of its chain in the working dict, at depth 1.       *)
C2_AcyclicCollapses ==
    /\ [](~HasCycle(WorkingMap(claims)) => pc # "raised")
    /\ [](~HasCycle(WorkingMap(claims)) /\ pc = "done"
            => Collapsed(WorkingMap(claims), pool_links))
    /\ (~HasCycle(WorkingMap(claims)) ~> (pc = "done"))

\* A returned dict in which a chain of two hops was collapsed and a
\* self-mapping name was kept
C2_Witness ==
    /\ pc = "done"
    /\ ~HasCycle(WorkingMap(claims))
    /\ \E k \in DictKeys(pool_links) :
         /\ DictGet(WorkingMap(claims), k) # DictGet(pool_links, k)
         /\ DictHas(pool_links, DictGet(pool_links, k))
         /\ DictGet(pool_links, DictGet(pool_links, k)) = DictGet(pool_links, k)

-----------------------------------------------------------------------------
(* get_pool_links behind @lru_cache(maxsize=2), line 88.  The cache holds  *)
(* <<key, result>> pairs, least recently used first; a key is the pair of  *)
(* arguments <<project_name, timeframe>>.                                  *)

CacheMaxSize == 2

Projects == {"bitcoin", "cardano"}
Timeframes == {"2021", "2022"}
Keys == Projects \X Timeframes

\* The claim data on disk: what each (project, timeframe) selects from it
SampleClaims ==
    { <<>>,
      << <<"C", "B">>, <<"B", "A">> >>,
      << <<"B", "A">>, <<"C", "B">>, <<"A", "A">> >>,
      << <<"A", "B">>, <<"B", "A">> >>,
      << <<"C", "A">>, <<"A", "B">>, <<"B", "A">> >> }

\* CacheIndex that tells the keys apart by the project alone
CacheIndex_ProjectOnly(c, k) ==
    IF \E i \in DOMAIN c : c[i][1][1] = k[1]
    THEN CHOOSE i \in DOMAIN c : c[i][1][1] = k[1]
    ELSE 0

\* The place of key k in the cache, 0 if it is not cached
CacheIndex(c, k) ==
    IF \E i \in DOMAIN c : c[i][1] = k
    THEN CHOOSE i \in DOMAIN c : c[i][1] = k
    ELSE 0

\* c without its i-th entry
CacheDrop(c, i) == [j \in 1..(Len(c) - 1) |-> IF j < i THEN c[j] ELSE c[j + 1]]

\* A hit makes the entry the most recently used
CacheTouch(c, i) == Append(CacheDrop(c, i), c[i])

\* A miss stores the result, dropping the least recently used entry of a full cache
CacheStore(c, k, v) ==
    IF Len(c) >= CacheMaxSize
    THEN Append(Tail(c), <<k, v>>)
    ELSE Append(c, <<k, v>>)

InitCache ==
    /\ claimsdb \in [Keys -> SampleClaims]
    /\ cache = <<>>
    /\ call_key = <<>>
    /\ ret = [op |-> "none", links |-> EmptyDict, from |-> "none"]
    /\ evicted = {}
    /\ LinkIdle /\ ClassIdle /\ MetricIdle /\ DateIdle

(* One call get_pool_links(project_name, timeframe).  A call whose chain   *)
(* resolution never ends never returns: nothing is called after it.  An    *)
(* exception leaves the cache as it was.                                   *)
CallPoolLinks(k) ==
    /\ ret.op # "diverge"
    /\ call_key' = k
    /\ LET i == CacheIndex(cache, k) IN
       IF i # 0
       THEN /\ ret' = [op |-> "return", links |-> cache[i][2], from |-> "cache"]
            /\ cache' = CacheTouch(cache, i)
            /\ evicted' = evicted
       ELSE LET r == get_pool_links(claimsdb[k]) IN
            /\ ret' = [op |-> r.op, links |-> r.links, from |-> "call"]
            /\ cache' = IF r.op = "return"
                        THEN CacheStore(cache, k, r.links)
                        ELSE cache
            /\ evicted' = IF r.op = "return" /\ Len(cache) >= CacheMaxSize
                          THEN evicted \cup {cache[1][1]}
                          ELSE evicted
    /\ UNCHANGED <<claimsdb, linkVars, classVars, metricVars, dateVars>>

NextCache == \E k \in Keys : CallPoolLinks(k)

SpecCache == InitCache /\ [][NextCache]_vars

(* C10: every call of get_pool_links that ends, ends as a fresh uncached   *)
(* resolution of the same (project, timeframe) ends: with an equal         *)
(* mapping, whether served from the cache or recomputed, or with the       *)
(* circular-dependency error, which is never cached.                       *)
C10_CachedEqualsFresh ==
    /\ ret.op # "none" =>
         /\ ret.op = get_pool_links(claimsdb[call_key]).op
         /\ ret.links = get_pool_links(claimsdb[call_key]).links
    /\ \A i \in DOMAIN cache :
         /\ get_pool_links(claimsdb[cache[i][1]]).op = "return"
         /\ cache[i][2] = get_pool_links(claimsdb[cache[i][1]]).links
    /\ Len(cache) <= CacheMaxSize

\* A key that was evicted by calls for other keys is resolved again, to a
\* mapping that is not empty, while a failing key has stayed out of the cache
C10_Witness ==
    /\ ret.op = "return" /\ ret.from = "call"
    /\ call_key \in evicted
    /\ ret.links # EmptyDict
    /\ Len(cache) = CacheMaxSize
    /\ \E k \in Keys : get_pool_links(claimsdb[k]).op = "raise"

-----------------------------------------------------------------------------
(* Concentration metrics.  blocks_per_entity.values() is the sequence      *)
(* counts.  A result is None, or the float num / den held as a fraction in *)
(* lowest terms, or the outcome of a division by zero.                     *)

MaxCount == 6
MaxEntities == 4

\* The distributions the documentation gives as examples
ExampleCounts ==
    { <<10, 0, 0, 0>>, <<5, 5, 5, 5>>, <<100>>, <<50, 50>>, <<25, 25, 25, 25>> }

CountSeqs == SeqsUpTo(0..MaxCount, MaxEntities) \cup ExampleCounts

None == [kind |-> "None", num |-> 0, den |-> 1]
DivByZero == [kind |-> "divzero", num |-> 0, den |-> 0]

Abs(x) == IF x < 0 THEN -x ELSE x

RECURSIVE GCD(_, _)
GCD(a, b) == IF b = 0 THEN a ELSE GCD(b, a % b)

\* The float a / b
Quot(a, b) ==
    IF b = 0 THEN DivByZero
    ELSE LET g == GCD(Abs(a), Abs(b))
             sgn == IF b < 0 THEN -1 ELSE 1 IN
         [kind |-> "float", num |-> sgn * (a \div g), den |-> sgn * (b \div g)]

RECURSIVE SumSeq(_)
SumSeq(xs) == IF xs = <<>> THEN 0 ELSE xs[1] + SumSeq(Tail(xs))

RECURSIVE MinSeq(_)
MinSeq(xs) ==
    IF Len(xs) = 1 THEN xs[1]
    ELSE LET m == MinSeq(Tail(xs)) IN IF xs[1] < m THEN xs[1] ELSE m

\* x put in its place in the ascending sequence xs
RECURSIVE Insert(_, _)
Insert(x, xs) ==
    IF xs = <<>> THEN <<x>>
    ELSE IF x <= xs[1] THEN <<x>> \o xs
    ELSE <<xs[1]>> \o Insert(x, Tail(xs))

\* np.sort
RECURSIVE SortAsc(_)
SortAsc(xs) == IF xs = <<>> THEN <<>> ELSE Insert(xs[1], SortAsc(Tail(xs)))

\* gini with the index counted from 0: np.arange(0, n)
gini_IndexFromZero(array) ==
    LET sorted == SortAsc(array)
        n == Len(sorted)
        index == [i \in 1..n |-> i - 1]
    IN  Quot(SumSeq([i \in 1..n |-> (2 * index[i] - n - 1) * sorted[i]]),
             n * SumSeq(sorted))

\* gini without line 27, the sort
gini_NoSort(array) ==
    LET n == Len(array)
        index == [i \in 1..n |-> i]
    IN  Quot(SumSeq([i \in 1..n |-> (2 * index[i] - n - 1) * array[i]]),
             n * SumSeq(array))

\* gini.py lines 16-30
gini(array) ==
    LET shifted == IF MinSeq(array) < 0
                   THEN [i \in DOMAIN array |-> array[i] - MinSeq(array)]
                   ELSE array
        sorted == SortAsc(shifted)
        n == Len(sorted)
        index == [i \in 1..n |-> i]
    IN  Quot(SumSeq([i \in 1..n |-> (2 * index[i] - n - 1) * sorted[i]]),
             n * SumSeq(sorted))

\* compute_gini that returns None for the empty distribution only
compute_gini_EmptyOnly(values) ==
    IF Len(values) = 0 THEN None ELSE gini(values)

\* gini.py lines 4-13
compute_gini(values) ==
    IF SumSeq(values) = 0 THEN None ELSE gini(values)

\* compute_hhi with the shares as fractions of 1, not as percentages
compute_hhi_NoPercent(values) ==
    LET total_blocks == SumSeq(values) IN
    IF total_blocks = 0 THEN None
    ELSE Quot(SumSeq([i \in DOMAIN values |-> values[i] * values[i]]),
              total_blocks * total_blocks)

(* herfindahl_hirschman_index.py lines 12-15.  Every term                  *)
(* pow(num_blocks / total_blocks * 100, 2) is the fraction                 *)
(* (num_blocks * 100)^2 / total_blocks^2, so the sum is taken over the     *)
(* common denominator.                                                     *)
compute_hhi(values) ==
    LET total_blocks == SumSeq(values) IN
    IF total_blocks = 0 THEN None
    ELSE Quot(SumSeq([i \in DOMAIN values |->
                        (values[i] * 100) * (values[i] * 100)]),
              total_blocks * total_blocks)

InitMetrics ==
    /\ counts \in CountSeqs
    /\ gini_out = Unset
    /\ hhi_out = Unset
    /\ LinkIdle /\ CacheIdle /\ ClassIdle /\ DateIdle

\* The analysis of one time chunk computes the Gini coefficient ...
ComputeGini ==
    /\ gini_out = Unset
    /\ gini_out' = compute_gini(counts)
    /\ UNCHANGED <<counts, hhi_out, linkVars, cacheVars, classVars, dateVars>>

\* ... and the HHI of its distribution
ComputeHHI ==
    /\ hhi_out = Unset
    /\ hhi_out' = compute_hhi(counts)
    /\ UNCHANGED <<counts, gini_out, linkVars, cacheVars, classVars, dateVars>>

NextMetrics == ComputeGini \/ ComputeHHI

SpecMetrics == InitMetrics /\ [][NextMetrics]_vars

-----------------------------------------------------------------------------
(* What the claims about the metrics speak of *)

AllZero(xs) == \A i \in DOMAIN xs : xs[i] = 0

AllEqual(xs) == \A i, j \in DOMAIN xs : xs[i] = xs[j]

\* Two or more entities, one of which holds every block
OneHoldsAll(xs) ==
    /\ Len(xs) >= 2
    /\ \E i \in DOMAIN xs :
         xs[i] > 0 /\ \A j \in DOMAIN xs : j # i => xs[j] = 0

\* xs with the counts at i and j supplied in the other order
Swap(xs, i, j) ==
    [k \in DOMAIN xs |-> IF k = i THEN xs[j] ELSE IF k = j THEN xs[i] ELSE xs[k]]

(* C6 as stated: when one of two or more entities holds every block, the   *)
(* Gini coefficient is exactly 1.0, numerator equal to denominator.        *)
C6_OneHolderGiniIsOne ==
    (gini_out # Unset /\ OneHoldsAll(counts))
        => (gini_out.kind = "float" /\ gini_out.num = gini_out.den)

(* C6 as amended: when one of n >= 2 entities holds every block, the Gini  *)
(* coefficient is exactly (n - 1) / n, which is below 1 (0.75 for          *)
(* [10, 0, 0, 0]).                                                         *)
C6_OneHolderGini ==
    (gini_out # Unset /\ OneHoldsAll(counts))
        => /\ gini_out = Quot(Len(counts) - 1, Len(counts))
           /\ gini_out.num < gini_out.den

C6_Witness ==
    /\ counts = <<10, 0, 0, 0>>
    /\ gini_out = [kind |-> "float", num |-> 3, den |-> 4]

(* C7: compute_gini and compute_hhi return None exactly when the           *)
(* distribution is empty or all its counts are zero, a number in every     *)
(* other case, and never divide by a total of zero.                        *)
C7_NoneIffNoBlocks ==
    /\ gini_out # Unset =>
         /\ gini_out.kind \in {"None", "float"}
         /\ gini_out = None <=> AllZero(counts)
    /\ hhi_out # Unset =>
         /\ hhi_out.kind \in {"None", "float"}
         /\ hhi_out = None <=> AllZero(counts)

C7_Witness ==
    /\ counts = <<0, 0, 0>>
    /\ gini_out = None
    /\ hhi_out = None

(* C8: for counts with a positive total the Gini coefficient lies in       *)
(* [0, 1], is 0 exactly when all counts are equal, and is the same when    *)
(* any two of the counts are supplied in the other order.                  *)
C8_GiniRangeAndOrder ==
    (gini_out # Unset /\ SumSeq(counts) > 0) =>
        /\ gini_out.kind = "float"
        /\ gini_out.den > 0
        /\ 0 <= gini_out.num /\ gini_out.num <= gini_out.den
        /\ gini_out.num = 0 <=> AllEqual(counts)
        /\ \A i, j \in DOMAIN counts :
             compute_gini(Swap(counts, i, j)) = gini_out

\* Counts supplied in descending order, with a coefficient strictly inside (0, 1)
C8_Witness ==
    /\ Len(counts) >= 3
    /\ \A i \in 1..(Len(counts) - 1) : counts[i] > counts[i + 1]
    /\ gini_out.kind = "float"
    /\ 0 < gini_out.num /\ gini_out.num < gini_out.den

(* C9: for counts with a positive total, compute_hhi is                    *)
(* 10000 * sum(x_i^2) / total^2, lies in [0, 10000], is 10000 / n when the *)
(* n entities hold equal nonzero counts, and is the same with a zero-count *)
(* entity added at either end.                                             *)
C9_HhiValue ==
    (hhi_out # Unset /\ SumSeq(counts) > 0) =>
        /\ hhi_out = Quot(10000 * SumSeq([i \in DOMAIN counts |-> counts[i] * counts[i]]),
                          SumSeq(counts) * SumSeq(counts))
        /\ hhi_out.den > 0
        /\ 0 <= hhi_out.num /\ hhi_out.num <= 10000 * hhi_out.den
        /\ AllEqual(counts) => hhi_out = Quot(10000, Len(counts))
        /\ compute_hhi(Append(counts, 0)) = hhi_out
        /\ compute_hhi(<<0>> \o counts) = hhi_out

C9_Witness ==
    /\ counts = <<25, 25, 25, 25>>
    /\ hhi_out = [kind |-> "float", num |-> 2500, den |-> 1]

-----------------------------------------------------------------------------
(* Block classification.  An entity name, an address and a tag are         *)
(* strings; "" is the absent value (None, or the empty string).            *)

MaxRewardAddresses == 2

Addresses == {"a1", "a2"}

\* Identifiers a block may carry; "A" is a tag that is also a pool's name
Tags == {"t1", "A"}

\* Names the identity data may give; "C,D" is a name with a comma in it
DisplayNames == {"A", "B", "C,D"}

UNDEFINED_MINER == "----- UNDEFINED MINER -----"
SPECIAL_ADDRESS == "----- SPECIAL ADDRESS -----"
IOG_CORE_NODES == "[!] IOG (core nodes pre-decentralization)"

Sentinels == {UNDEFINED_MINER, SPECIAL_ADDRESS, IOG_CORE_NODES}

\* Every function from a subset of D to R
PartialFns(D, R) == UNION {[S -> R] : S \in SUBSET D}

\* str.replace(',', '') on the strings of the model
RemoveCommas(str) == IF str = "C,D" THEN "CD" ELSE str

\* entity = pool_links[entity] if entity is a claimant, else entity
ApplyLinks(links, name) ==
    IF DictHas(links, name) THEN DictGet(links, name) ELSE name

(* DefaultMapping.get_reward_addresses: None (here [none |-> TRUE]) when   *)
(* the block has no reward address, else the addresses of the block that   *)
(* are not special addresses.                                              *)
get_reward_addresses(blk, special) ==
    IF blk.reward_addresses = <<>>
    THEN [none |-> TRUE, list |-> <<>>]
    ELSE [none |-> FALSE,
          list |-> SelectSeq(blk.reward_addresses, LAMBDA a : a \notin special)]

\* tezos_mapping.py lines 12-19: always None
tezos_map_from_known_identifiers(blk) == ""

\* map_from_known_addresses with "if not reward_addresses" for line 33
tezos_map_from_known_addresses_Falsy(blk, special, known) ==
    LET reward_addresses == get_reward_addresses(blk, special) IN
    IF reward_addresses.none \/ Len(reward_addresses.list) = 0
    THEN UNDEFINED_MINER
    ELSE LET reward_address == reward_addresses.list[1] IN
         IF reward_address \in DOMAIN known THEN known[reward_address]
         ELSE reward_address

\* tezos_mapping.py lines 21-40
tezos_map_from_known_addresses(blk, special, known) ==
    LET reward_addresses == get_reward_addresses(blk, special) IN
    IF reward_addresses.none THEN UNDEFINED_MINER
    ELSE IF Len(reward_addresses.list) = 0 THEN SPECIAL_ADDRESS
    ELSE LET reward_address == reward_addresses.list[1] IN
         IF reward_address \in DOMAIN known THEN known[reward_address]
         ELSE reward_address

(* DefaultMapping, the caller of the two methods: the identifier match     *)
(* wins, else the address match; a name that is not a sentinel is then     *)
(* passed through the link mapping.                                        *)
default_map_block(identifier_match, addr_match, links) ==
    LET name == IF identifier_match # "" THEN identifier_match ELSE addr_match IN
    IF name \in Sentinels THEN name ELSE ApplyLinks(links, name)

\* cardano.py lines 39-43: the block has no coinbase_param
cardano_entity_from_addresses(tx) ==
    LET pool == tx.coinbase_addresses IN
    IF pool # "" THEN pool ELSE IOG_CORE_NODES

\* cardano.py lines 32-45: the key of blocks_per_entity the block is counted under
cardano_entity(tx, pool_data_tags, links) ==
    LET e == tx.coinbase_param
        resolved ==
            IF e # ""
            THEN IF DictHas(links, e) THEN DictGet(links, e)
                 ELSE IF e \in DOMAIN pool_data_tags THEN pool_data_tags[e]
                 ELSE e
            ELSE cardano_entity_from_addresses(tx)
    IN  RemoveCommas(resolved)

TezosBlocks ==
    [identifiers : {""} \cup Tags,
     reward_addresses : SeqsUpTo(Addresses, MaxRewardAddresses)]

CardanoBlocks ==
    [coinbase_param : {""} \cup Tags,
     coinbase_addresses : {""} \cup Addresses]

\* The claim data the link mapping of a classification run is resolved from
ClassifyClaims == SeqsUpTo(Names \X Names, 1) \cup SampleClaims

(* The link mapping is a mapping the resolution returned: get_pool_links   *)
(* for Tezos, the loop of lib.get_pool_data for Cardano.                   *)
InitClassify ==
    /\ project \in {"tezos", "cardano"}
    /\ block \in IF project = "tezos" THEN TezosBlocks ELSE CardanoBlocks
    /\ known_identifiers \in PartialFns(Tags, {"B", "C,D"})
    /\ known_addresses \in PartialFns(Addresses, {"A", "B"})
    /\ special_addresses \in SUBSET Addresses
    /\ \E cs \in ClassifyClaims :
         LET r == IF project = "tezos"
                  THEN get_pool_links(cs)
                  ELSE lib_resolve_chain_links(WorkingMap(cs)) IN
         r.op = "return" /\ link_mapping = r.links
    /\ address_match = ""
    /\ entity = ""
    /\ LinkIdle /\ CacheIdle /\ MetricIdle /\ DateIdle

\* One Tezos block is mapped
MapTezosBlock ==
    /\ project = "tezos" /\ entity = ""
    /\ LET id == tezos_map_from_known_identifiers(block)
           am == tezos_map_from_known_addresses(block, special_addresses,
                                                known_addresses) IN
       /\ address_match' = IF id = "" THEN am ELSE ""
       /\ entity' = default_map_block(id, am, link_mapping)
    /\ UNCHANGED <<project, block, known_identifiers, known_addresses,
                   special_addresses, link_mapping,
                   linkVars, cacheVars, metricVars, dateVars>>

\* One Cardano block is counted
ProcessCardanoBlock ==
    /\ project = "cardano" /\ entity = ""
    /\ entity' = cardano_entity(block, known_identifiers, link_mapping)
    /\ UNCHANGED <<project, block, known_identifiers, known_addresses,
                   special_addresses, link_mapping, address_match,
                   linkVars, cacheVars, metricVars, dateVars>>

NextClassify == MapTezosBlock \/ ProcessCardanoBlock

SpecClassify == InitClassify /\ [][NextClassify]_vars

-----------------------------------------------------------------------------
(* What the claims about classification speak of *)

\* The identifier the block carries, "" if none
BlockIdentifier ==
    IF project = "cardano" THEN block.coinbase_param ELSE block.identifiers

\* The block carries no reward address
NoRewardAddress ==
    IF project = "cardano" THEN block.coinbase_addresses = ""
    ELSE block.reward_addresses = <<>>

\* The block is matched by its identifier: the project matches identifiers
\* (Tezos declines) and the identifier is a known one
IdentifierMatches ==
    /\ project # "tezos"
    /\ BlockIdentifier # ""
    /\ BlockIdentifier \in DOMAIN known_identifiers

\* The project's classification of the block by its reward addresses alone
ByRewardAddresses ==
    IF project = "cardano"
    THEN RemoveCommas(cardano_entity_from_addresses(block))
    ELSE default_map_block("", tezos_map_from_known_addresses(
                                   block, special_addresses, known_addresses),
                           link_mapping)

(* C3: the name a block is attributed to, unless it is a sentinel, is never *)
(* a claimant that the link mapping maps to a different owner, for Tezos    *)
(* and for Cardano alike.                                                   *)
C3_NameIsNormalized ==
    (entity # "" /\ entity \notin Sentinels)
        => ApplyLinks(link_mapping, entity) = entity

(* C4: the address-based classification of a block is 'undefined miner'    *)
(* exactly when the block has no reward address, 'special address' exactly *)
(* when it has reward addresses and all of them are special, and otherwise *)
(* the name the first remaining address is known under, or that address.   *)
C4_AddressOutcome ==
    (project = "tezos" /\ address_match # "") =>
        LET raw == block.reward_addresses
            remaining == SelectSeq(raw, LAMBDA a : a \notin special_addresses)
        IN  /\ address_match = UNDEFINED_MINER <=> raw = <<>>
            /\ address_match = SPECIAL_ADDRESS <=> (raw # <<>> /\ remaining = <<>>)
            /\ remaining # <<>> =>
                 address_match = IF remaining[1] \in DOMAIN known_addresses
                                 THEN known_addresses[remaining[1]]
                                 ELSE remaining[1]

\* A block whose two reward addresses are both special addresses
C4_Witness ==
    /\ project = "tezos"
    /\ Len(block.reward_addresses) = 2
    /\ block.reward_addresses[1] # block.reward_addresses[2]
    /\ address_match = SPECIAL_ADDRESS

(* C5: the first matching rule wins.  A block whose identifier is a known  *)
(* one is attributed through the identifier, to the name the identifier    *)
(* stands for or to that name's owner; any other block is classified by    *)
(* its reward addresses; and only a block without a reward address gets a  *)
(* no-signal sentinel.                                                     *)
C5_FirstMatchWins ==
    entity # "" =>
        /\ IdentifierMatches =>
             entity \in { RemoveCommas(known_identifiers[BlockIdentifier]),
                          RemoveCommas(ApplyLinks(link_mapping,
                                         known_identifiers[BlockIdentifier])) }
        /\ ~IdentifierMatches => entity = ByRewardAddresses
        /\ entity \in {UNDEFINED_MINER, IOG_CORE_NODES} => NoRewardAddress

-----------------------------------------------------------------------------
(* Timeframes.  A Python str is a sequence of one-character strings; a     *)
(* datetime.date is [ok |-> TRUE, year, month, day]; NoDate stands for     *)
(* no date computed yet.                                                   *)

\* The ValueError of date.fromisoformat
DateValueError == [ok |-> FALSE, year |-> -1, month |-> -1, day |-> -1]

DigitChars == <<"0", "1", "2", "3", "4", "5", "6", "7", "8", "9">>

IsDigit(c) == \E i \in DOMAIN DigitChars : DigitChars[i] = c

DigitValue(c) == (CHOOSE i \in DOMAIN DigitChars : DigitChars[i] = c) - 1

IsDigits(str) == str # <<>> /\ \A i \in DOMAIN str : IsDigit(str[i])

\* int(str) of a string of digits
RECURSIVE ParseInt(_)
ParseInt(str) ==
    IF str = <<>> THEN 0
    ELSE 10 * ParseInt(SubSeq(str, 1, Len(str) - 1)) + DigitValue(str[Len(str)])

\* str(n) of a natural number, as in f'{n}'
RECURSIVE IntToStr(_)
IntToStr(n) ==
    IF n < 10 THEN <<DigitChars[n + 1]>>
    ELSE IntToStr(n \div 10) \o <<DigitChars[(n % 10) + 1]>>

\* str.ljust(width, 'x')
ljust(str, width) ==
    IF Len(str) >= width THEN str
    ELSE str \o [i \in 1..(width - Len(str)) |-> "x"]

\* str.replace(old, new): the occurrences of old, left to right, not overlapping
RECURSIVE replace(_, _, _)
replace(str, old, new) ==
    IF Len(str) < Len(old) THEN str
    ELSE IF SubSeq(str, 1, Len(old)) = old
         THEN new \o replace(SubSeq(str, Len(old) + 1, Len(str)), old, new)
         ELSE <<str[1]>> \o replace(Tail(str), old, new)

\* str.split(sep) for a one-character sep
RECURSIVE split(_, _)
split(str, sep) ==
    IF \E i \in DOMAIN str : str[i] = sep
    THEN LET i == CHOOSE j \in DOMAIN str :
                      str[j] = sep /\ \A k \in 1..(j - 1) : str[k] # sep
         IN  <<SubSeq(str, 1, i - 1)>> \o split(SubSeq(str, i + 1, Len(str)), sep)
    ELSE <<str>>

isleap(year) == year % 4 = 0 /\ (year % 100 # 0 \/ year % 400 = 0)

\* calendar.monthrange(year, month)[1]
monthrange_days(year, month) ==
    <<31, 28, 31, 30, 31, 30, 31, 31, 30, 31, 30, 31>>[month]
        + (IF month = 2 /\ isleap(year) THEN 1 ELSE 0)

\* datetime.date.fromisoformat on a string of ten characters or more
fromisoformat(str) ==
    IF /\ Len(str) = 10
       /\ str[5] = "-" /\ str[8] = "-"
       /\ IsDigits(SubSeq(str, 1, 4))
       /\ IsDigits(SubSeq(str, 6, 7))
       /\ IsDigits(SubSeq(str, 9, 10))
    THEN LET y == ParseInt(SubSeq(str, 1, 4))
             m == ParseInt(SubSeq(str, 6, 7))
             d == ParseInt(SubSeq(str, 9, 10))
         IN  IF y >= 1 /\ m \in 1..12 /\ d >= 1 /\ d <= monthrange_days(y, m)
             THEN [ok |-> TRUE, year |-> y, month |-> m, day |-> d]
             ELSE DateValueError
    ELSE DateValueError

\* helper.py lines 36-42
get_timeframe_beginning(tf) ==
    fromisoformat(replace(ljust(tf, 10), <<"x", "x", "x">>, <<"-", "0", "1">>))

\* get_timeframe_end with the last day written as '-31' for every month
get_timeframe_end_ThirtyOne(tf) ==
    LET timeframe_with_month ==
            replace(ljust(tf, 7), <<"x", "x", "x">>, <<"-", "1", "2">>)
        timeframe_with_day ==
            replace(ljust(timeframe_with_month, 10), <<"x", "x", "x">>,
                    <<"-", "3", "1">>)
    IN  fromisoformat(timeframe_with_day)

\* helper.py lines 45-55
get_timeframe_end(tf) ==
    LET timeframe_with_month ==
            replace(ljust(tf, 7), <<"x", "x", "x">>, <<"-", "1", "2">>)
        parts == split(timeframe_with_month, "-")
        year == ParseInt(parts[1])
        month == ParseInt(parts[2])
        days_in_month == monthrange_days(year, month)
        timeframe_with_day ==
            replace(ljust(timeframe_with_month, 10), <<"x", "x", "x">>,
                    <<"-">> \o IntToStr(days_in_month))
    IN  fromisoformat(timeframe_with_day)

\* a <= b on dates
DateLE(a, b) ==
    \/ a.year < b.year
    \/ a.year = b.year /\ a.month < b.month
    \/ a.year = b.year /\ a.month = b.month /\ a.day <= b.day

-----------------------------------------------------------------------------
(* The timeframe strings a caller passes: YYYY, YYYY-MM or YYYY-MM-DD of a *)
(* real calendar day.  In <<y, m, d>> a 0 stands for a part left out.      *)

Years == {1900, 2000, 2023, 2024}

\* n written with at least w digits
ZeroPad(n, w) ==
    LET str == IntToStr(n) IN [i \in 1..(w - Len(str)) |-> "0"] \o str

\* The last calendar day of a month: 29 for February of a leap year, 28 otherwise
LastDay(y, m) ==
    IF m = 2
    THEN IF (y % 400 = 0) \/ (y % 4 = 0 /\ y % 100 # 0) THEN 29 ELSE 28
    ELSE IF m \in {4, 6, 9, 11} THEN 30 ELSE 31

WriteTimeframe(parts) ==
    ZeroPad(parts[1], 4)
      \o (IF parts[2] = 0 THEN <<>> ELSE <<"-">> \o ZeroPad(parts[2], 2))
      \o (IF parts[3] = 0 THEN <<>> ELSE <<"-">> \o ZeroPad(parts[3], 2))

ValidParts ==
    {<<y, 0, 0>> : y \in Years}
      \cup {<<y, m, 0>> : y \in Years, m \in 1..12}
      \cup {p \in Years \X (1..12) \X (1..31) : p[3] <= LastDay(p[1], p[2])}

\* The strings the validity window of a claim and its timeframe are taken from
WindowParts ==
    LET ys == {2023, 2024}
        ms == {1, 2, 12} IN
    {<<y, 0, 0>> : y \in ys}
      \cup {<<y, m, 0>> : y \in ys, m \in ms}
      \cup {<<y, m, 1>> : y \in ys, m \in ms}
      \cup {<<y, m, LastDay(y, m)>> : y \in ys, m \in ms}

WindowStrings == {<<>>} \cup {WriteTimeframe(p) : p \in WindowParts}

DATE_MIN == [ok |-> TRUE, year |-> 1, month |-> 1, day |-> 1]
DATE_MAX == [ok |-> TRUE, year |-> 9999, month |-> 12, day |-> 31]

\* date - datetime.timedelta(1), for a date after date.min
DayBefore(date) ==
    IF date.day > 1 THEN [date EXCEPT !.day = date.day - 1]
    ELSE IF date.month > 1
         THEN [date EXCEPT !.month = date.month - 1,
                           !.day = monthrange_days(date.year, date.month - 1)]
         ELSE [date EXCEPT !.year = date.year - 1, !.month = 12, !.day = 31]

\* helper.py lines 58-68; "" is the empty string
get_time_period(frm, to) ==
    [start |-> IF frm # <<>> THEN get_timeframe_beginning(frm) ELSE DATE_MIN,
     end   |-> IF to # <<>> THEN DayBefore(get_timeframe_beginning(to))
                            ELSE DATE_MAX]

\* helper.py lines 115-123: any(check_list)
periods_overlap(start, end, link_start, link_end) ==
    \/ DateLE(start, link_start) /\ DateLE(link_start, end)
    \/ DateLE(start, link_end) /\ DateLE(link_end, end)
    \/ DateLE(link_start, start) /\ DateLE(start, link_end)
    \/ DateLE(link_start, end) /\ DateLE(end, link_end)

\* helper.py lines 98-99 and 115-123, for one pool_info: whether line 124 runs
claim_is_recorded(tf, info) ==
    LET start == get_timeframe_beginning(tf)
        end == get_timeframe_end(tf)
        period == get_time_period(info.from, info.to)
    IN  periods_overlap(start, end, period.start, period.end)

InitDates ==
    /\ \/ /\ tf_parts \in ValidParts
          /\ pool_info = [name |-> "A", from |-> <<>>, to |-> <<>>]
       \/ /\ tf_parts \in WindowParts
          /\ pool_info \in [name : {"A"}, from : WindowStrings, to : WindowStrings]
    /\ timeframe = WriteTimeframe(tf_parts)
    /\ tf_start = NoDate /\ tf_end = NoDate
    /\ recorded = "unset"
    /\ LinkIdle /\ CacheIdle /\ ClassIdle /\ MetricIdle

\* get_timeframe_beginning(timeframe) and get_timeframe_end(timeframe)
TimeframeBounds ==
    /\ tf_start = NoDate
    /\ tf_start' = get_timeframe_beginning(timeframe)
    /\ tf_end' = get_timeframe_end(timeframe)
    /\ UNCHANGED <<timeframe, tf_parts, pool_info, recorded,
                   linkVars, cacheVars, classVars, metricVars>>

\* get_pool_links reaches pool_info in its loop of lines 112-124
SelectClaim ==
    /\ recorded = "unset"
    /\ recorded' = IF claim_is_recorded(timeframe, pool_info) THEN "yes" ELSE "no"
    /\ UNCHANGED <<timeframe, tf_parts, pool_info, tf_start, tf_end,
                   linkVars, cacheVars, classVars, metricVars>>

NextDates == TimeframeBounds \/ SelectClaim

SpecDates == InitDates /\ [][NextDates]_vars

-----------------------------------------------------------------------------
(* What the claims about timeframes and validity windows speak of *)

\* The number of the day, counted from 0001-01-01
Ordinal(date) ==
    LET y == date.year - 1
        before == <<0, 31, 59, 90, 120, 151, 181, 212, 243, 273, 304, 334>> IN
    365 * y + (y \div 4) - (y \div 100) + (y \div 400)
      + before[date.month]
      + (IF date.month > 2 /\ LastDay(date.year, 2) = 29 THEN 1 ELSE 0)
      + date.day

(* C11: for every valid timeframe the beginning is not after the end; the  *)
(* beginning takes 01 for a month or day left out, the end takes 12 for a  *)
(* month left out and the last calendar day of the month for a day left    *)
(* out; a full YYYY-MM-DD gives that same day twice.                       *)
C11_BeginningBeforeEnd ==
    tf_start # NoDate =>
        LET y == tf_parts[1]
            m == tf_parts[2]
            d == tf_parts[3]
            em == IF m = 0 THEN 12 ELSE m
        IN  /\ tf_start = [ok |-> TRUE, year |-> y,
                           month |-> IF m = 0 THEN 1 ELSE m,
                           day |-> IF d = 0 THEN 1 ELSE d]
            /\ tf_end = [ok |-> TRUE, year |-> y, month |-> em,
                         day |-> IF d = 0 THEN LastDay(y, em) ELSE d]
            /\ DateLE(tf_start, tf_end)
            /\ Ordinal(tf_start) <= Ordinal(tf_end)
            /\ d # 0 => tf_start = tf_end

\* February of a leap year, the day left out
C11_Witness ==
    /\ timeframe = <<"2", "0", "2", "4", "-", "0", "2">>
    /\ tf_start = [ok |-> TRUE, year |-> 2024, month |-> 2, day |-> 1]
    /\ tf_end = [ok |-> TRUE, year |-> 2024, month |-> 2, day |-> 29]

\* The validity window [from, to) and the timeframe [start, end] share a day
SharesDay ==
    LET start == get_timeframe_beginning(timeframe)
        end == get_timeframe_end(timeframe) IN
    \E day \in Ordinal(start)..Ordinal(end) :
        /\ pool_info.from = <<>>
             \/ Ordinal(get_timeframe_beginning(pool_info.from)) <= day
        /\ pool_info.to = <<>>
             \/ day < Ordinal(get_timeframe_beginning(pool_info.to))

(* C12: get_pool_links records a claim exactly when its validity window   *)
(* [from, to) shares a day with the timeframe [start, end], an empty from  *)
(* being minus infinity and an empty to plus infinity; a window without a  *)
(* day (from >= to) is never recorded.                                     *)
C12_RecordedIffSharesDay ==
    recorded # "unset" => (recorded = "yes" <=> SharesDay)

=============================================================================
